---- MODULE Spec2Model ----
(***************************************************************************)
(* A model of the mangrove prediction backend (index.js, models/*.js):     *)
(* the three tables of the store with their unique columns, the cookie     *)
(* session kept by express-session, the startup seed, and every route      *)
(* handler cut at its awaits.  One step of the model is one database       *)
(* statement executed by the store together with the JavaScript that runs  *)
(* in the continuation of that statement, up to the next statement issued. *)
(* A statement issued without await (User.create, instance.update,         *)
(* instance.destroy, Config.create, Mangrove.create in the seed) becomes a *)
(* task of its own that the store executes at any later time.              *)
(***************************************************************************)
EXTENDS Integers, Sequences, FiniteSets, TLC

VARIABLES
    proc,       \* "syncing": sequelize.sync() pending; "ready": the seed was started
    tables,     \* TRUE once the tables exist in the database file
    users,      \* rows of table users
    configs,    \* rows of table configs
    mangroves,  \* rows of table mangroves
    session,    \* the user id held by the session store for the client's cookie, Absent if none
    tasks,      \* statements and continuations in flight
    last        \* what the latest step did to its request: the observation the claims read

vars == <<proc, tables, users, configs, mangroves, session, tasks, last>>

store == <<tables, users, configs, mangroves>>

(***************************************************************************)
(* Bounds of the model.                                                    *)
(***************************************************************************)
MaxReq == 2          \* requests handled concurrently
MaxRowId == 3        \* row ids handed out by the store stay <= MaxRowId
MaxDataId == 2       \* dataId values an admin can submit: 0..MaxDataId
MaxScore == 1        \* model outputs are drawn from 0..MaxScore
VecLen == 3          \* length of the model's output vector
SeedConfigCount == 2 \* how many of the seed's config rows the model runs
SeedClassCount == 2  \* how many of the seed's class rows the model runs

Absent == 0          \* req.session.userId undefined (falsy, like the id 0 no row has)

Usernames == {"admin", "bob"}
Passwords == {"admin", "pw"}
Salts == {"s1"}
Names == {"n1"}
Texts == {"-"}
BodyValues == {"", "v1", "v2"}

Min(a, b) == IF a < b THEN a ELSE b

(***************************************************************************)
(* bcrypt: a hash keeps its salt; compareSync re-hashes with that salt.    *)
(***************************************************************************)
HashSync(pw, salt) == <<salt, "H", pw>>

CompareSync(pw, hash) == HashSync(pw, hash[1]) = hash

(***************************************************************************)
(* The store.  A table is a set of rows; id is the INTEGER PRIMARY KEY,    *)
(* which sqlite fills with max(id) + 1 when the insert gives none.         *)
(***************************************************************************)
MaxOf(S) == CHOOSE m \in S : \A n \in S : n <= m

NextId(table) == IF table = {} THEN 1 ELSE MaxOf({r.id : r \in table}) + 1

\* unique: true on users.username, configs.key, mangroves.dataId
UniqueNone(table, col, val, selfId) == FALSE

UniqueViolated(table, col, val, selfId) ==
    \E r \in table : r.id # selfId /\ r[col] = val

\* Model.create: INSERT; a unique violation rejects and inserts nothing
Create(table, col, row) ==
    IF UniqueViolated(table, col, row[col], Absent)
    THEN table
    ELSE table \cup {[row EXCEPT !.id = NextId(table)]}

CreateOk(table, col, row) == ~UniqueViolated(table, col, row[col], Absent)

\* Model.findOne({where: {col: val}}): the row, or NoRow (null)
NoRow == [id |-> Absent]

FindOne(table, col, val) ==
    IF \E r \in table : r[col] = val
    THEN CHOOSE r \in table : r[col] = val
    ELSE NoRow

\* instance.destroy(): DELETE ... WHERE id = pk
Destroy(table, pk) == {r \in table : r.id # pk}

(***************************************************************************)
(* Tasks in flight.  rid is the request the task belongs to (0: the        *)
(* startup routine); sess0 is req.session.userId as express-session loaded *)
(* it when the request arrived, sess its value now, ended whether the      *)
(* response was already sent.  The other fields are the closure of the     *)
(* continuation.                                                           *)
(***************************************************************************)
\* a request body without fields
NoForm == [k \in {} |-> ""]

Task(rid, op, sess0, sess, ended) ==
    [rid |-> rid, op |-> op, sess0 |-> sess0, sess |-> sess, ended |-> ended,
     key |-> "", num |-> 0, name |-> "", image |-> "", description |-> "",
     dataId |-> 0, val |-> "", prev |-> "", row |-> NoRow, pw |-> <<>>, vec |-> <<>>, body |-> NoForm]

FreeRids == {r \in 1..MaxReq : \A t \in tasks : t.rid # r}

NewRid == CHOOSE r \in FreeRids : \A q \in FreeRids : r <= q

(***************************************************************************)
(* The observation of a step.  status is 0 when the step sent no response; *)
(* in is the input of the request and body what the response carries, each *)
(* a record whose fields depend on the route.                              *)
(***************************************************************************)
NoBody == [none |-> TRUE]

NoInput == [none |-> TRUE]

Obs(route, step, sess0) ==
    [route |-> route, step |-> step, authed |-> sess0 # Absent, sess |-> sess0,
     status |-> 0, target |-> "", body |-> NoBody, threw |-> FALSE, final |-> FALSE,
     db |-> FALSE, in |-> NoInput]

NoObs == Obs("", "", Absent)

(***************************************************************************)
(* The statements of a handler act on the state of its request:            *)
(* st.sess is req.session.userId, st.ended whether res.end() ran,          *)
(* st.threw whether an exception has left the handler, st.persist the      *)
(* user id the session store holds.  express-session commits the session   *)
(* inside the first res.end() of a request, and only if it differs from    *)
(* what was loaded; what the handler assigns after that is never stored.   *)
(***************************************************************************)
Begin(t, persisted) ==
    [sess0 |-> t.sess0, sess |-> t.sess, ended |-> t.ended, threw |-> FALSE,
     status |-> 0, target |-> "", body |-> NoBody, persist |-> persisted]

\* the commit express-session makes in res.end()
Commit(st) == IF st.sess # st.sess0 THEN st.sess ELSE st.persist

\* a first response ends the request; a second one throws ERR_HTTP_HEADERS_SENT
Send(st, status, target, body) ==
    IF st.threw THEN st
    ELSE IF st.ended THEN [st EXCEPT !.threw = TRUE]
    ELSE [st EXCEPT !.ended = TRUE, !.status = status, !.target = target,
                    !.body = body, !.persist = Commit(st)]

Redirect(st, location) == Send(st, 302, location, NoBody)

Render(st, view, locals) == Send(st, 200, view, locals)

Json(st, status, body) == Send(st, status, "json", body)

Throw(st) == [st EXCEPT !.threw = TRUE]

SetUserId(st, id) == IF st.threw THEN st ELSE [st EXCEPT !.sess = id]

\* what a finished statement sequence leaves in the observation
Seen(o, st, final, db) ==
    [o EXCEPT !.sess = st.sess, !.status = st.status, !.target = st.target,
              !.body = st.body, !.threw = st.threw, !.final = final, !.db = db]

\* if (!req.session.userId): undefined and 0 are falsy
AuthAlways(sess) == TRUE

Authenticated(sess) == sess # Absent

(***************************************************************************)
(* GET /login, POST /login, GET /logout                                    *)
(***************************************************************************)
GetLoginBody(st) ==
    LET s1 == IF Authenticated(st.sess) THEN Redirect(st, "/") ELSE st
    IN  Render(s1, "login", NoBody)

GetLogin ==
    LET st == GetLoginBody(Begin(Task(0, "", session, session, FALSE), session))
    IN  /\ last' = Seen(Obs("GET /login", "arrive", session), st, TRUE, FALSE)
        /\ session' = st.persist
        /\ UNCHANGED <<proc, store, tasks>>

\* POST /login up to its await: the redirect of a logged-in client does not return
PostLoginArrive(username, password) ==
    /\ FreeRids # {}
    /\ LET t0 == Task(NewRid, "login.findOne", session, session, FALSE)
           st == IF Authenticated(t0.sess) THEN Redirect(Begin(t0, session), "/")
                 ELSE Begin(t0, session)
       IN  /\ tasks' = tasks \cup
                  {[t0 EXCEPT !.ended = st.ended, !.key = username, !.val = password]}
           /\ last' = [Seen(Obs("POST /login", "arrive", session), st, FALSE, TRUE)
                          EXCEPT !.in = [username |-> username, password |-> password]]
           /\ session' = st.persist
    /\ UNCHANGED <<proc, store>>

\* a continuation of User.findOne that assigns the user id before it checks the password
PostLoginBodyEager(st, selectedUser, password) ==
    LET s0 == SetUserId(st, selectedUser.id)
        s1 == IF selectedUser = NoRow THEN Throw(Redirect(s0, "/login")) ELSE s0
        s2 == IF ~CompareSync(password, selectedUser.password)
              THEN Redirect(s1, "/login")
              ELSE s1
    IN  Redirect(s2, "/")

\* the continuation of User.findOne in POST /login
PostLoginBody(st, selectedUser, password) ==
    LET s1 == IF selectedUser = NoRow THEN Redirect(st, "/login") ELSE st
        s2 == IF selectedUser = NoRow
              THEN Throw(s1)                         \* selectedUser.password of null
              ELSE IF ~CompareSync(password, selectedUser.password)
                   THEN Redirect(s1, "/login")
                   ELSE s1
        s3 == SetUserId(s2, selectedUser.id)
    IN  Redirect(s3, "/")

PostLoginFound(t) ==
    /\ t.op = "login.findOne"
    /\ LET st == IF tables
                 THEN PostLoginBody(Begin(t, session), FindOne(users, "username", t.key), t.val)
                 ELSE Throw(Begin(t, session))       \* the query rejects: no such table
       IN  /\ last' = [Seen(Obs("POST /login", "found", t.sess0), st, TRUE, TRUE)
                          EXCEPT !.in = [username |-> t.key, password |-> t.val]]
           /\ session' = st.persist
    /\ tasks' = tasks \ {t}
    /\ UNCHANGED <<proc, store>>

GetLogoutBody(st) ==
    LET s1 == IF Authenticated(st.sess) THEN Redirect(SetUserId(st, Absent), "/login") ELSE st
    IN  Redirect(s1, "/login")

GetLogout ==
    LET st == GetLogoutBody(Begin(Task(0, "", session, session, FALSE), session))
    IN  /\ last' = Seen(Obs("GET /logout", "arrive", session), st, TRUE, FALSE)
        /\ session' = st.persist
        /\ UNCHANGED <<proc, store, tasks>>

(***************************************************************************)
(* Admin routes.  Each starts with                                         *)
(*     if (!req.session.userId) return res.redirect("/login");             *)
(***************************************************************************)
NewTask(op) == Task(NewRid, op, session, session, FALSE)

\* a page that reads nothing from the store
AdminPage(route, view) ==
    LET st0 == Begin(Task(0, "", session, session, FALSE), session)
        st  == IF ~Authenticated(st0.sess) THEN Redirect(st0, "/login")
               ELSE Render(st0, view, NoBody)
    IN  /\ last' = Seen(Obs(route, "arrive", session), st, TRUE, FALSE)
        /\ session' = st.persist
        /\ UNCHANGED <<proc, store, tasks>>

\* a handler whose first statement after the guard is awaited: t is its continuation
AdminAwait(route, t, in) ==
    /\ FreeRids # {}
    /\ LET st0 == Begin(t, session)
       IN  IF ~Authenticated(st0.sess)
           THEN LET st == Redirect(st0, "/login")
                IN  /\ last' = [Seen(Obs(route, "arrive", session), st, TRUE, FALSE)
                                   EXCEPT !.in = in]
                    /\ session' = st.persist
                    /\ tasks' = tasks
           ELSE /\ last' = [Seen(Obs(route, "arrive", session), st0, FALSE, TRUE)
                               EXCEPT !.in = in]
                /\ session' = st0.persist
                /\ tasks' = tasks \cup {t}
    /\ UNCHANGED <<proc, store>>

\* the end of a continuation: the request's observation, the session commit
Finish(route, step, t, st, in) ==
    /\ last' = [Seen(Obs(route, step, t.sess0), st, TRUE, TRUE) EXCEPT !.in = in]
    /\ session' = st.persist

GetRoot == AdminPage("GET /", "dashboard/index")

GetUsersCreate == AdminPage("GET /users/create", "users/create")

GetMangrovesCreate == AdminPage("GET /mangroves/create", "mangroves/create")

\* GET /users
GetUsersArrive == AdminAwait("GET /users", NewTask("users.findAll"), NoInput)

GetUsersFound(t) ==
    /\ t.op = "users.findAll"
    /\ LET st == IF tables THEN Render(Begin(t, session), "users/index", [users |-> users])
                 ELSE Throw(Begin(t, session))
       IN  Finish("GET /users", "found", t, st, NoInput)
    /\ tasks' = tasks \ {t}
    /\ UNCHANGED <<proc, store>>

\* rows a table can still receive from admin requests without an id above MaxRowId
Room(table, ops) ==
    NextId(table) + Cardinality({t \in tasks : t.op \in ops}) <= MaxRowId

\* POST /users: User.create(user) is not awaited, the redirect follows at once
PostUsers(username, password, salt) ==
    /\ FreeRids # {}
    /\ Room(users, {"users.create"})
    /\ LET t   == [NewTask("users.create") EXCEPT
                      !.key = username, !.pw = HashSync(password, salt)]
           st0 == Begin(t, session)
           st  == IF ~Authenticated(st0.sess) THEN Redirect(st0, "/login")
                  ELSE Redirect(st0, "/users")
       IN  /\ last' = [Seen(Obs("POST /users", "arrive", session), st, TRUE,
                            Authenticated(st0.sess))
                                    EXCEPT !.in = [username |-> username, password |-> password]]
           /\ session' = st.persist
           /\ tasks' = IF Authenticated(st0.sess) THEN tasks \cup {t} ELSE tasks
    /\ UNCHANGED <<proc, store>>

UsersCreate(t) ==
    /\ t.op = "users.create"
    /\ users' = IF tables
                THEN Create(users, "username",
                            [id |-> Absent, username |-> t.key, password |-> t.pw])
                ELSE users
    /\ tasks' = tasks \ {t}
    /\ last' = [Obs("POST /users", "create", t.sess0) EXCEPT !.db = TRUE,
            !.in = [username |-> t.key]]
    /\ UNCHANGED <<proc, tables, configs, mangroves, session>>

\* POST /users/:id/delete: user.destroy() is not awaited; a missing row throws
PostUsersDeleteArrive(id) ==
    AdminAwait("POST /users/:id/delete", [NewTask("users.findByPk") EXCEPT !.num = id], [id |-> id])

PostUsersDeleteFound(t) ==
    /\ t.op = "users.findByPk"
    /\ LET user == FindOne(users, "id", t.num)
           ok   == tables /\ user # NoRow
           st   == IF ok THEN Redirect(Begin(t, session), "/users")
                   ELSE Throw(Begin(t, session))
       IN  /\ Finish("POST /users/:id/delete", "found", t, st, [id |-> t.num])
           /\ tasks' = (tasks \ {t}) \cup
                  (IF ok THEN {[t EXCEPT !.op = "users.destroy", !.ended = TRUE]} ELSE {})
    /\ UNCHANGED <<proc, store>>

UsersDestroy(t) ==
    /\ t.op = "users.destroy"
    /\ users' = Destroy(users, t.num)
    /\ tasks' = tasks \ {t}
    /\ last' = [Obs("POST /users/:id/delete", "destroy", t.sess0)
                   EXCEPT !.db = TRUE, !.in = [id |-> t.num]]
    /\ UNCHANGED <<proc, tables, configs, mangroves, session>>

\* GET /mangroves
GetMangrovesArrive == AdminAwait("GET /mangroves", NewTask("mangroves.findAll"), NoInput)

GetMangrovesFound(t) ==
    /\ t.op = "mangroves.findAll"
    /\ LET st == IF tables THEN Render(Begin(t, session), "mangroves/index", [mangroves |-> mangroves])
                 ELSE Throw(Begin(t, session))
       IN  Finish("GET /mangroves", "found", t, st, NoInput)
    /\ tasks' = tasks \ {t}
    /\ UNCHANGED <<proc, store>>

MangroveRow(t) ==
    [id |-> Absent, dataId |-> t.dataId, name |-> t.name, image |-> t.image,
     description |-> t.description]

MangroveCreators == {"mangroves.findOne", "mangroves.create"}

\* POST /mangroves: findOne, then create if the dataId was not found, both awaited
PostMangrovesArrive(name, dataId, image, description) ==
    /\ Room(mangroves, MangroveCreators)
    /\ AdminAwait("POST /mangroves",
                  [NewTask("mangroves.findOne") EXCEPT !.name = name, !.dataId = dataId,
                       !.image = image, !.description = description],
                  [dataId |-> dataId, name |-> name])

PostMangrovesFound(t) ==
    /\ t.op = "mangroves.findOne"
    /\ LET existingMangrove == FindOne(mangroves, "dataId", t.dataId)
           create == tables /\ existingMangrove = NoRow
           st == IF ~tables THEN Throw(Begin(t, session))
                 ELSE IF create THEN Begin(t, session)
                 ELSE Redirect(Begin(t, session), "/mangroves")
       IN  /\ last' = [Seen(Obs("POST /mangroves", "found", t.sess0), st, ~create, TRUE)
                          EXCEPT !.in = [dataId |-> t.dataId, name |-> t.name]]
           /\ session' = st.persist
           /\ tasks' = (tasks \ {t}) \cup
                  (IF create THEN {[t EXCEPT !.op = "mangroves.create"]} ELSE {})
    /\ UNCHANGED <<proc, store>>

PostMangrovesCreate(t) ==
    /\ t.op = "mangroves.create"
    /\ LET ok == tables /\ CreateOk(mangroves, "dataId", MangroveRow(t))
           st == IF ok THEN Redirect(Begin(t, session), "/mangroves")
                 ELSE Throw(Begin(t, session))       \* SequelizeUniqueConstraintError
       IN  /\ mangroves' = IF tables THEN Create(mangroves, "dataId", MangroveRow(t))
                           ELSE mangroves
           /\ Finish("POST /mangroves", "create", t, st, [dataId |-> t.dataId, name |-> t.name])
    /\ tasks' = tasks \ {t}
    /\ UNCHANGED <<proc, tables, users, configs>>

\* GET /mangroves/:id/edit
GetMangrovesEditArrive(id) ==
    AdminAwait("GET /mangroves/:id/edit", [NewTask("mangroves.editFind") EXCEPT !.num = id],
               [id |-> id])

GetMangrovesEditFound(t) ==
    /\ t.op = "mangroves.editFind"
    /\ LET st == IF tables
                 THEN Render(Begin(t, session), "mangroves/edit",
                             [mangrove |-> FindOne(mangroves, "id", t.num)])
                 ELSE Throw(Begin(t, session))
       IN  Finish("GET /mangroves/:id/edit", "found", t, st, [id |-> t.num])
    /\ tasks' = tasks \ {t}
    /\ UNCHANGED <<proc, store>>

\* the instance is saved with its changed fields only: the fields of the UPDATE are
\* those whose submitted value differs from the one findOne read
Changed(t) ==
    {f \in {"name", "dataId", "image", "description"} : t[f] # t.row[f]}

SetFields(r, t) ==
    [f \in DOMAIN r |-> IF f \in Changed(t) THEN t[f] ELSE r[f]]

\* an UPDATE that the unique index does not stop
UpdateMangroveUnchecked(table, pk, t) ==
    {IF r.id = pk THEN SetFields(r, t) ELSE r : r \in table}

\* instance.update(values): UPDATE mangroves SET the changed fields WHERE id = pk;
\* a unique violation rejects and changes nothing
UpdateMangrove(table, pk, t) ==
    IF "dataId" \in Changed(t) /\ UniqueViolated(table, "dataId", t.dataId, pk)
    THEN table
    ELSE {IF r.id = pk THEN SetFields(r, t) ELSE r : r \in table}

\* POST /mangroves/:id/edit: mangrove.update(...) is not awaited; a missing row throws
PostMangrovesEditArrive(id, name, dataId, image, description) ==
    AdminAwait("POST /mangroves/:id/edit",
               [NewTask("mangroves.updateFind") EXCEPT !.num = id, !.name = name,
                    !.dataId = dataId, !.image = image, !.description = description],
               [id |-> id, dataId |-> dataId, name |-> name])

PostMangrovesEditFound(t) ==
    /\ t.op = "mangroves.updateFind"
    /\ LET mangrove == FindOne(mangroves, "id", t.num)
           ok == tables /\ mangrove # NoRow
           st == IF ok THEN Redirect(Begin(t, session), "/mangroves")
                 ELSE Throw(Begin(t, session))
       IN  /\ Finish("POST /mangroves/:id/edit", "found", t, st,
               [id |-> t.num, dataId |-> t.dataId, name |-> t.name])
           /\ tasks' = (tasks \ {t}) \cup
                  (IF ok THEN {[t EXCEPT !.op = "mangroves.update", !.ended = TRUE,
                                        !.row = mangrove]}
                   ELSE {})
    /\ UNCHANGED <<proc, store>>

MangrovesUpdate(t) ==
    /\ t.op = "mangroves.update"
    /\ mangroves' = UpdateMangrove(mangroves, t.num, t)
    /\ tasks' = tasks \ {t}
    /\ last' = [Obs("POST /mangroves/:id/edit", "update", t.sess0)
                   EXCEPT !.db = TRUE, !.in = [id |-> t.num, dataId |-> t.dataId, name |-> t.name]]
    /\ UNCHANGED <<proc, tables, users, configs, session>>

\* POST /mangroves/:id/delete: mangrove.destroy() is not awaited; a missing row throws
PostMangrovesDeleteArrive(id) ==
    AdminAwait("POST /mangroves/:id/delete",
               [NewTask("mangroves.deleteFind") EXCEPT !.num = id], [id |-> id])

PostMangrovesDeleteFound(t) ==
    /\ t.op = "mangroves.deleteFind"
    /\ LET mangrove == FindOne(mangroves, "id", t.num)
           ok == tables /\ mangrove # NoRow
           st == IF ok THEN Redirect(Begin(t, session), "/mangroves")
                 ELSE Throw(Begin(t, session))
       IN  /\ Finish("POST /mangroves/:id/delete", "found", t, st, [id |-> t.num])
           /\ tasks' = (tasks \ {t}) \cup
                  (IF ok THEN {[t EXCEPT !.op = "mangroves.destroy", !.ended = TRUE]} ELSE {})
    /\ UNCHANGED <<proc, store>>

MangrovesDestroy(t) ==
    /\ t.op = "mangroves.destroy"
    /\ mangroves' = Destroy(mangroves, t.num)
    /\ tasks' = tasks \ {t}
    /\ last' = [Obs("POST /mangroves/:id/delete", "destroy", t.sess0)
                   EXCEPT !.db = TRUE, !.in = [id |-> t.num]]
    /\ UNCHANGED <<proc, tables, users, configs, session>>

\* GET /configs
GetConfigsArrive == AdminAwait("GET /configs", NewTask("configs.findAll"), NoInput)

GetConfigsFound(t) ==
    /\ t.op = "configs.findAll"
    /\ LET st == IF tables THEN Render(Begin(t, session), "configs/index", [configs |-> configs])
                 ELSE Throw(Begin(t, session))
       IN  Finish("GET /configs", "found", t, st, NoInput)
    /\ tasks' = tasks \ {t}
    /\ UNCHANGED <<proc, store>>

\* req.body[key]: undefined when the form carries no such field
BodyValue(body, key) == IF key \in DOMAIN body THEN body[key] ELSE ""

\* if (req.body[key]): the empty string and undefined are falsy
Truthy(value) == value # ""

\* POST /configs: for every row whose key the body carries a value for, an async
\* callback awaits findOne and then calls update without await; the redirect
\* follows the forEach at once
PostConfigsArrive(body) ==
    AdminAwait("POST /configs", [NewTask("configs.postFindAll") EXCEPT !.body = body],
            [form |-> body])

PostConfigsFound(t) ==
    /\ t.op = "configs.postFindAll"
    /\ LET st == IF tables THEN Redirect(Begin(t, session), "/configs")
                 ELSE Throw(Begin(t, session))
           callbacks ==
               IF tables
               THEN {[t EXCEPT !.op = "configs.findOne", !.ended = TRUE, !.key = config.key,
                               !.val = BodyValue(t.body, config.key), !.body = NoForm] :
                        config \in {c \in configs : Truthy(BodyValue(t.body, c.key))}}
               ELSE {}
       IN  /\ Finish("POST /configs", "found", t, st, [form |-> t.body])
           /\ tasks' = (tasks \ {t}) \cup callbacks
    /\ UNCHANGED <<proc, store>>

ConfigsFindOne(t) ==
    /\ t.op = "configs.findOne"
    /\ LET selectedConfig == FindOne(configs, "key", t.key)
       IN  tasks' = (tasks \ {t}) \cup
               (IF selectedConfig # NoRow
                THEN {[t EXCEPT !.op = "configs.update", !.num = selectedConfig.id,
                                !.prev = selectedConfig.value]}
                ELSE {})                               \* update of null: TypeError
    /\ last' = [Obs("POST /configs", "findOne", t.sess0) EXCEPT !.db = TRUE,
            !.in = [key |-> t.key, value |-> t.val]]
    /\ UNCHANGED <<proc, store, session>>

\* an UPDATE without its WHERE clause
UpdateConfigAll(table, pk, prev, value) == {[r EXCEPT !.value = value] : r \in table}

\* selectedConfig.update({value}): the instance, which holds the value findOne read,
\* is saved with its changed fields only: UPDATE configs SET value = ? WHERE id = pk
\* when the value differs from the one read, and no statement otherwise
UpdateConfig(table, pk, prev, value) ==
    IF value = prev THEN table
    ELSE {IF r.id = pk THEN [r EXCEPT !.value = value] ELSE r : r \in table}

ConfigsUpdate(t) ==
    /\ t.op = "configs.update"
    /\ configs' = UpdateConfig(configs, t.num, t.prev, t.val)
    /\ tasks' = tasks \ {t}
    /\ last' = [Obs("POST /configs", "update", t.sess0) EXCEPT !.db = TRUE,
            !.in = [key |-> t.key, value |-> t.val]]
    /\ UNCHANGED <<proc, tables, users, mangroves, session>>

(***************************************************************************)
(* The public API.  Both handlers are one try block with a catch that      *)
(* answers 500 with the error's message.                                   *)
(***************************************************************************)
CatchNothing(st) == st

Catch(st) ==
    IF st.threw THEN Json([st EXCEPT !.threw = FALSE], 500, [error |-> "message"]) ELSE st

\* configs.rows.forEach(config => configsObj[key] = value)
ConfigsObj(table) ==
    [k \in {r.key : r \in table} |-> (CHOOSE r \in table : r.key = k).value]

GetApiConfigsArrive ==
    /\ FreeRids # {}
    /\ tasks' = tasks \cup {NewTask("api.configs")}
    /\ last' = [Obs("GET /api/v1/configs", "arrive", session) EXCEPT !.db = TRUE]
    /\ UNCHANGED <<proc, store, session>>

GetApiConfigsFound(t) ==
    /\ t.op = "api.configs"
    /\ LET st == Catch(IF tables THEN Json(Begin(t, session), 200, [json |-> ConfigsObj(configs)])
                       ELSE Throw(Begin(t, session)))
       IN  Finish("GET /api/v1/configs", "found", t, st, NoInput)
    /\ tasks' = tasks \ {t}
    /\ UNCHANGED <<proc, store>>

\* argMax over the output vector, as an index from 0: a later value replaces the
\* best one only when it is strictly greater
RECURSIVE ArgMaxFrom(_, _, _)
ArgMaxFrom(vec, i, best) ==
    IF i > Len(vec) THEN best - 1
    ELSE ArgMaxFrom(vec, i + 1, IF vec[i] > vec[best] THEN i ELSE best)

RECURSIVE ArgMaxLastFrom(_, _, _)
ArgMaxLastFrom(vec, i, best) ==
    IF i > Len(vec) THEN best - 1
    ELSE ArgMaxLastFrom(vec, i + 1, IF vec[i] >= vec[best] THEN i ELSE best)

\* an argMax that lets a later equal value win
ArgMaxLast(vec) == ArgMaxLastFrom(vec, 2, 1)

ArgMax(vec) == ArgMaxFrom(vec, 2, 1)

Files == {"none", "corrupt", "image"}

\* POST /api/v1/predict up to the findOne: req.file.buffer, sharp, loadLayersModel,
\* model.predict and argMax; each can throw into the catch
PostPredictArrive(file, modelOk, vec) ==
    /\ FreeRids # {}
    /\ LET t  == [NewTask("api.predict") EXCEPT !.num = ArgMax(vec), !.vec = vec]
           ok == file = "image" /\ modelOk
           st == Catch(IF ok THEN Begin(t, session) ELSE Throw(Begin(t, session)))
       IN  /\ last' = [Seen(Obs("POST /api/v1/predict", "arrive", session), st, ~ok, ok)
                          EXCEPT !.in = [file |-> file, modelOk |-> modelOk, vec |-> vec]]
           /\ tasks' = IF ok THEN tasks \cup {t} ELSE tasks
    /\ UNCHANGED <<proc, store, session>>

PredictBody(st, mangrove, predictedClassIdx) ==
    IF mangrove = NoRow
    THEN Throw(st)                                   \* mangrove.getDataValue of null
    ELSE Json(st, 200, [dataId |-> predictedClassIdx, name |-> mangrove.name,
                        image |-> mangrove.image, description |-> mangrove.description])

PostPredictFound(t) ==
    /\ t.op = "api.predict"
    /\ LET st == Catch(IF tables
                       THEN PredictBody(Begin(t, session),
                                        FindOne(mangroves, "dataId", t.num), t.num)
                       ELSE Throw(Begin(t, session)))
       IN  Finish("POST /api/v1/predict", "found", t, st,
               [file |-> "image", modelOk |-> TRUE, vec |-> t.vec])
    /\ tasks' = tasks \ {t}
    /\ UNCHANGED <<proc, store>>

(***************************************************************************)
(* Startup: sequelize.sync().then(seed) and app.listen(port) start         *)
(* together, so requests are served while sync and the seed are pending.   *)
(***************************************************************************)
ConfigSeed ==
    << [key |-> "about", value |-> "Foo", input |-> "textarea"],
       [key |-> "about_banner", value |-> "https://sample", input |-> "text"],
       [key |-> "help", value |-> "Bar", input |-> "textarea"],
       [key |-> "help_banner", value |-> "https://sample", input |-> "text"],
       [key |-> "tfjs_model_uri",
        value |-> "https://aziyan99.github.io/202310221831tfjs/model.json",
        input |-> "text"] >>

MangroveSeed ==
    << [dataId |-> 0, name |-> "Avicennia alba", image |-> "-", description |-> "-"],
       [dataId |-> 1, name |-> "Bruguiera cylindrica", image |-> "-", description |-> "-"],
       [dataId |-> 2, name |-> "Bruguiera gymnorrhiza", image |-> "-", description |-> "-"],
       [dataId |-> 3, name |-> "Lumnitzera littorea", image |-> "-", description |-> "-"],
       [dataId |-> 4, name |-> "Rhizophora apiculata", image |-> "-", description |-> "-"],
       [dataId |-> 5, name |-> "Rhizophora mucronata", image |-> "-", description |-> "-"],
       [dataId |-> 6, name |-> "Sonneratia alba", image |-> "-", description |-> "-"],
       [dataId |-> 7, name |-> "Xylocarpus granatum", image |-> "-", description |-> "-"] >>

\* the rows of the seed the model runs: the first SeedConfigCount and SeedClassCount
SeedConfigs == {ConfigSeed[i] : i \in 1..Min(SeedConfigCount, Len(ConfigSeed))}

SeedMangroves == {MangroveSeed[i] : i \in 1..Min(SeedClassCount, Len(MangroveSeed))}

SeedConfigRow(key) ==
    LET c == CHOOSE c \in SeedConfigs : c.key = key
    IN  [id |-> Absent, key |-> c.key, value |-> c.value, input |-> c.input]

SeedMangroveRow(dataId) ==
    LET m == CHOOSE m \in SeedMangroves : m.dataId = dataId
    IN  [id |-> Absent, dataId |-> m.dataId, name |-> m.name, image |-> m.image,
         description |-> m.description]

SeedTask(op) == Task(0, op, Absent, Absent, FALSE)

\* sequelize.sync() resolves: the tables exist, and the callback issues the user's
\* findOrCreate and one findOne per config and per class row
Sync(salt) ==
    /\ proc = "syncing"
    /\ proc' = "ready"
    /\ tables' = TRUE
    /\ tasks' = tasks
          \cup {[SeedTask("seed.user") EXCEPT !.key = "admin", !.pw = HashSync("admin", salt)]}
          \cup {[SeedTask("seed.configFind") EXCEPT !.key = c.key] : c \in SeedConfigs}
          \cup {[SeedTask("seed.mangroveFind") EXCEPT !.dataId = m.dataId] : m \in SeedMangroves}
    /\ last' = Obs("sync", "seed", Absent)
    /\ UNCHANGED <<users, configs, mangroves, session>>

\* Model.findOrCreate({where, defaults}) replaced by an upsert
Upsert(table, col, row) ==
    {r \in table : r[col] # row[col]} \cup
        {[row EXCEPT !.id = IF FindOne(table, col, row[col]) = NoRow THEN NextId(table)
                              ELSE FindOne(table, col, row[col]).id]}

\* Model.findOrCreate({where, defaults}): the row is created only if none matches
FindOrCreate(table, col, row) ==
    IF FindOne(table, col, row[col]) = NoRow THEN Create(table, col, row) ELSE table

SeedUser(t) ==
    /\ t.op = "seed.user"
    /\ users' = FindOrCreate(users, "username",
                             [id |-> Absent, username |-> t.key, password |-> t.pw])
    /\ tasks' = tasks \ {t}
    /\ last' = [Obs("seed", "user", Absent) EXCEPT !.db = TRUE, !.in = [username |-> t.key]]
    /\ UNCHANGED <<proc, tables, configs, mangroves, session>>

SeedConfigFind(t) ==
    /\ t.op = "seed.configFind"
    /\ LET existingConfig == FindOne(configs, "key", t.key)
       IN  tasks' = (tasks \ {t}) \cup
               (IF existingConfig = NoRow THEN {[t EXCEPT !.op = "seed.configCreate"]} ELSE {})
    /\ last' = [Obs("seed", "configFind", Absent) EXCEPT !.db = TRUE, !.in = [key |-> t.key]]
    /\ UNCHANGED <<proc, store, session>>

SeedConfigCreate(t) ==
    /\ t.op = "seed.configCreate"
    /\ configs' = Create(configs, "key", SeedConfigRow(t.key))
    /\ tasks' = tasks \ {t}
    /\ last' = [Obs("seed", "configCreate", Absent) EXCEPT !.db = TRUE, !.in = [key |-> t.key]]
    /\ UNCHANGED <<proc, tables, users, mangroves, session>>

SeedMangroveFind(t) ==
    /\ t.op = "seed.mangroveFind"
    /\ LET existingMangrove == FindOne(mangroves, "dataId", t.dataId)
       IN  tasks' = (tasks \ {t}) \cup
               (IF existingMangrove = NoRow THEN {[t EXCEPT !.op = "seed.mangroveCreate"]}
                ELSE {})
    /\ last' = [Obs("seed", "mangroveFind", Absent) EXCEPT !.db = TRUE,
            !.in = [dataId |-> t.dataId]]
    /\ UNCHANGED <<proc, store, session>>

SeedMangroveCreate(t) ==
    /\ t.op = "seed.mangroveCreate"
    /\ mangroves' = Create(mangroves, "dataId", SeedMangroveRow(t.dataId))
    /\ tasks' = tasks \ {t}
    /\ last' = [Obs("seed", "mangroveCreate", Absent) EXCEPT !.db = TRUE,
            !.in = [dataId |-> t.dataId]]
    /\ UNCHANGED <<proc, tables, users, configs, session>>

\* the process stops and is started again: what was in flight and the sessions (kept
\* in memory) are lost, the database file stays
Restart ==
    /\ proc = "ready"
    /\ proc' = "syncing"
    /\ tasks' = {}
    /\ session' = Absent
    /\ last' = Obs("restart", "", Absent)
    /\ UNCHANGED store

(***************************************************************************)
(* The program: a fresh process on an empty database file.                 *)
(***************************************************************************)
Init ==
    /\ proc = "syncing"
    /\ tables = FALSE
    /\ users = {}
    /\ configs = {}
    /\ mangroves = {}
    /\ session = Absent
    /\ tasks = {}
    /\ last = NoObs

DataIds == 0..MaxDataId

RowIds == 1..MaxRowId

Vectors == [1..VecLen -> 0..MaxScore]

Bodies == [{c.key : c \in SeedConfigs} -> BodyValues]

StartupNext ==
    \/ \E salt \in Salts : Sync(salt)
    \/ \E t \in tasks : SeedUser(t)
    \/ \E t \in tasks : SeedConfigFind(t)
    \/ \E t \in tasks : SeedConfigCreate(t)
    \/ \E t \in tasks : SeedMangroveFind(t)
    \/ \E t \in tasks : SeedMangroveCreate(t)

SessionNext ==
    \/ GetLogin
    \/ \E u \in Usernames, p \in Passwords : PostLoginArrive(u, p)
    \/ \E t \in tasks : PostLoginFound(t)
    \/ GetLogout

PagesNext ==
    \/ GetRoot
    \/ GetUsersCreate
    \/ GetMangrovesCreate
    \/ GetUsersArrive
    \/ \E t \in tasks : GetUsersFound(t)
    \/ GetMangrovesArrive
    \/ \E t \in tasks : GetMangrovesFound(t)
    \/ \E id \in RowIds : GetMangrovesEditArrive(id)
    \/ \E t \in tasks : GetMangrovesEditFound(t)
    \/ GetConfigsArrive
    \/ \E t \in tasks : GetConfigsFound(t)

UsersNext ==
    \/ \E u \in Usernames, p \in Passwords, salt \in Salts : PostUsers(u, p, salt)
    \/ \E t \in tasks : UsersCreate(t)
    \/ \E id \in RowIds : PostUsersDeleteArrive(id)
    \/ \E t \in tasks : PostUsersDeleteFound(t)
    \/ \E t \in tasks : UsersDestroy(t)

MangrovesNext ==
    \/ \E n \in Names, d \in DataIds, i \in Texts, x \in Texts : PostMangrovesArrive(n, d, i, x)
    \/ \E t \in tasks : PostMangrovesFound(t)
    \/ \E t \in tasks : PostMangrovesCreate(t)
    \/ \E id \in RowIds, n \in Names, d \in DataIds, i \in Texts, x \in Texts :
           PostMangrovesEditArrive(id, n, d, i, x)
    \/ \E t \in tasks : PostMangrovesEditFound(t)
    \/ \E t \in tasks : MangrovesUpdate(t)
    \/ \E id \in RowIds : PostMangrovesDeleteArrive(id)
    \/ \E t \in tasks : PostMangrovesDeleteFound(t)
    \/ \E t \in tasks : MangrovesDestroy(t)

ConfigsNext ==
    \/ \E body \in Bodies : PostConfigsArrive(body)
    \/ \E t \in tasks : PostConfigsFound(t)
    \/ \E t \in tasks : ConfigsFindOne(t)
    \/ \E t \in tasks : ConfigsUpdate(t)

ApiNext ==
    \/ GetApiConfigsArrive
    \/ \E t \in tasks : GetApiConfigsFound(t)
    \/ \E f \in Files, ok \in BOOLEAN :
           \E vec \in (IF f = "image" /\ ok THEN Vectors ELSE {[i \in 1..VecLen |-> 0]}) :
               PostPredictArrive(f, ok, vec)
    \/ \E t \in tasks : PostPredictFound(t)

Next ==
    \/ StartupNext
    \/ Restart
    \/ SessionNext
    \/ PagesNext
    \/ UsersNext
    \/ MangrovesNext
    \/ ConfigsNext
    \/ ApiNext

Spec == Init /\ [][Next]_vars

(***************************************************************************)
(* States the running program reaches, used to start the specifications    *)
(* that leave the startup out.                                              *)
(***************************************************************************)
\* the rows a complete seed leaves in an empty database
SeededUsers(salt) == FindOrCreate({}, "username",
                         [id |-> Absent, username |-> "admin", password |-> HashSync("admin", salt)])

RECURSIVE SeededConfigs(_)
SeededConfigs(n) ==
    IF n = 0 THEN {} ELSE Create(SeededConfigs(n - 1), "key", SeedConfigRow(ConfigSeed[n].key))

RECURSIVE SeededMangroves(_)
SeededMangroves(n) ==
    IF n = 0 THEN {}
    ELSE Create(SeededMangroves(n - 1), "dataId", SeedMangroveRow(MangroveSeed[n].dataId))

\* the seed has completed on an empty database and nobody is logged in
Running ==
    /\ proc = "ready"
    /\ tables = TRUE
    /\ users \in {SeededUsers(salt) : salt \in Salts}
    /\ configs = SeededConfigs(Cardinality(SeedConfigs))
    /\ mangroves = SeededMangroves(Cardinality(SeedMangroves))
    /\ session = Absent
    /\ tasks = {}
    /\ last = NoObs

\* as Running, after the admin has logged in
LoggedIn ==
    /\ proc = "ready"
    /\ tables = TRUE
    /\ users \in {SeededUsers(salt) : salt \in Salts}
    /\ configs = SeededConfigs(Cardinality(SeedConfigs))
    /\ mangroves = SeededMangroves(Cardinality(SeedMangroves))
    /\ session \in {u.id : u \in users}
    /\ tasks = {}
    /\ last = NoObs

(***************************************************************************)
(* SpecRoutes: every route of the running server, each with one            *)
(* representative input (the login with every username and password).      *)
(* Logins and logouts arrive at any time, up to MaxReq requests in flight; *)
(* a request to another route arrives when the only continuations in       *)
(* flight are those of logins.                                             *)
(***************************************************************************)
OneBody == [k \in {c.key : c \in SeedConfigs} |-> IF k = "about" THEN "v1" ELSE ""]

RouteArrivals ==
    \/ GetRoot
    \/ GetUsersCreate
    \/ GetMangrovesCreate
    \/ GetUsersArrive
    \/ GetMangrovesArrive
    \/ GetMangrovesEditArrive(1)
    \/ GetConfigsArrive
    \/ \E salt \in Salts : PostUsers("bob", "pw", salt)
    \/ PostUsersDeleteArrive(2)
    \/ PostMangrovesArrive("n1", 2, "-", "-")
    \/ PostMangrovesEditArrive(1, "n1", 0, "-", "-")
    \/ PostMangrovesDeleteArrive(2)
    \/ PostConfigsArrive(OneBody)
    \/ GetApiConfigsArrive
    \/ PostPredictArrive("image", TRUE, [i \in 1..VecLen |-> 0])

RouteSteps ==
    \/ \E t \in tasks : GetUsersFound(t)
    \/ \E t \in tasks : GetMangrovesFound(t)
    \/ \E t \in tasks : GetMangrovesEditFound(t)
    \/ \E t \in tasks : GetConfigsFound(t)
    \/ \E t \in tasks : UsersCreate(t)
    \/ \E t \in tasks : PostUsersDeleteFound(t)
    \/ \E t \in tasks : UsersDestroy(t)
    \/ \E t \in tasks : PostMangrovesFound(t)
    \/ \E t \in tasks : PostMangrovesCreate(t)
    \/ \E t \in tasks : PostMangrovesEditFound(t)
    \/ \E t \in tasks : MangrovesUpdate(t)
    \/ \E t \in tasks : PostMangrovesDeleteFound(t)
    \/ \E t \in tasks : MangrovesDestroy(t)
    \/ \E t \in tasks : PostConfigsFound(t)
    \/ \E t \in tasks : ConfigsFindOne(t)
    \/ \E t \in tasks : ConfigsUpdate(t)
    \/ \E t \in tasks : GetApiConfigsFound(t)
    \/ \E t \in tasks : PostPredictFound(t)

OnlyLoginsInFlight == \A t \in tasks : t.op = "login.findOne"

RoutesNext ==
    \/ SessionNext
    \/ RouteSteps
    \/ OnlyLoginsInFlight /\ RouteArrivals

SpecRoutes == Running /\ [][RoutesNext]_vars

AdminRoutes ==
    {"GET /", "GET /users", "POST /users", "GET /users/create", "POST /users/:id/delete",
     "GET /mangroves", "POST /mangroves", "GET /mangroves/create",
     "GET /mangroves/:id/edit", "POST /mangroves/:id/edit", "POST /mangroves/:id/delete",
     "GET /configs", "POST /configs"}

\* C1: a request to an admin route arriving while the session holds no user id is
\* answered with a redirect to /login and nothing else: the handler ends there, no
\* view is rendered, no statement is issued or run, and store, session and the
\* tasks in flight stay as they are.
AdminNeedsSession ==
    [][(last'.route \in AdminRoutes /\ last'.step = "arrive" /\ session = Absent)
         => /\ last'.status = 302
            /\ last'.target = "/login"
            /\ last'.final
            /\ ~last'.db
            /\ ~last'.threw
            /\ UNCHANGED <<store, session, tasks>>]_vars

\* C1 happens: a delete request without a session was redirected to /login
AdminRedirected ==
    /\ last.route = "POST /mangroves/:id/delete"
    /\ last.step = "arrive"
    /\ ~last.authed
    /\ last.status = 302
    /\ last.target = "/login"
    /\ session = Absent

\* the user the submitted credentials belong to, NoRow if there is none
Matching(username, password) ==
    IF \E u \in users : u.username = username /\ CompareSync(password, u.password)
    THEN CHOOSE u \in users : u.username = username /\ CompareSync(password, u.password)
    ELSE NoRow

\* C2: when POST /login of a client without a session finishes, the session's user
\* id is the id of the user whose username and password were submitted, and is not
\* set if the username is unknown or the password does not match.
LoginSetsSessionOnlyOnMatch ==
    (last.route = "POST /login" /\ last.step = "found" /\ ~last.authed)
        => last.sess = Matching(last.in.username, last.in.password).id

CreateNext ==
    \/ StartupNext
    \/ PostLoginArrive("admin", "admin")
    \/ \E t \in tasks : PostLoginFound(t)
    \/ \E u \in Usernames, salt \in Salts : PostUsers(u, "pw", salt)
    \/ \E t \in tasks : UsersCreate(t)
    \/ \E d \in {0, MaxDataId} : PostMangrovesArrive("n1", d, "-", "-")
    \/ \E t \in tasks : PostMangrovesFound(t)
    \/ \E t \in tasks : PostMangrovesCreate(t)

SpecCreate == Init /\ [][CreateNext]_vars

\* no two rows of a table share the value of its unique column
UniqueIn(table, col) == \A r, q \in table : r[col] = q[col] => r = q

\* the rows a step added to a table carry a value of the unique column that no row had
AddedFresh(before, after, col) ==
    \A r \in after \ before : \A q \in before : q[col] # r[col]

\* C3: whatever creates interleave (POST /users, POST /mangroves, the seed), no two
\* users share a username, no two class rows a dataId, no two configs a key, and a
\* step adds a row only with a username, dataId or key that no row had before it.
CreatesKeepKeysUnique ==
    [][/\ UniqueIn(users', "username")
       /\ UniqueIn(mangroves', "dataId")
       /\ UniqueIn(configs', "key")
       /\ AddedFresh(users, users', "username")
       /\ AddedFresh(mangroves, mangroves', "dataId")
       /\ AddedFresh(configs, configs', "key")]_vars

\* C3 happens: of two concurrent POST /mangroves that both found the dataId free,
\* the second create was rejected by the store and the dataId has one row
DuplicateCreateRejected ==
    /\ last.route = "POST /mangroves"
    /\ last.step = "create"
    /\ last.threw
    /\ Cardinality({r \in mangroves : r.dataId = last.in.dataId}) = 1

(***************************************************************************)
(* SpecApi: a fresh process on an empty database; the public API is        *)
(* called, MaxReq requests at a time, while sync and the seed run and      *)
(* afterwards.                                                             *)
(***************************************************************************)
ApiSpecNext ==
    \/ StartupNext
    \/ ApiNext

SpecApi == Init /\ [][ApiSpecNext]_vars

\* the object of the seeded keys with their seeded values
SeededObj == [k \in {c.key : c \in SeedConfigs} |->
                 (CHOOSE c \in SeedConfigs : c.key = k).value]

\* C4: from an empty store and with no POST /configs, every answer of
\* GET /api/v1/configs is 200 with exactly the seeded keys and their seeded values.
ApiConfigsReturnsSeed ==
    (last.route = "GET /api/v1/configs" /\ last.step = "found")
        => (last.status = 200 /\ last.body = [json |-> SeededObj])

ApiRoutes == {"POST /api/v1/predict", "GET /api/v1/configs"}

FullResult(route, body) ==
    IF route = "GET /api/v1/configs"
    THEN body = [json |-> ConfigsObj(configs)]
    ELSE /\ DOMAIN body = {"dataId", "name", "image", "description"}
         /\ \E m \in mangroves : /\ body.dataId = m.dataId
                                 /\ body.name = m.name
                                 /\ body.image = m.image
                                 /\ body.description = m.description

\* C5: a step of the predict or configs handler that ends the handler sends exactly
\* one response, 200 with the full result or 500 with the error, and lets no
\* exception out; a step that does not end it sends nothing and leaves its
\* continuation in flight, with the response still to send.
ApiAnswersOnce ==
    /\ last.route \in ApiRoutes =>
          /\ ~last.threw
          /\ IF last.final
             THEN \/ last.status = 200 /\ last.target = "json" /\ FullResult(last.route, last.body)
                  \/ last.status = 500 /\ last.target = "json" /\ last.body = [error |-> "message"]
             ELSE last.status = 0
    /\ \A t \in tasks : t.op \in {"api.predict", "api.configs"} => ~t.ended

\* index i (from 0) holds the maximum of vec and no lower index does
FirstMax(vec, i) ==
    /\ i + 1 \in DOMAIN vec
    /\ \A j \in DOMAIN vec : vec[j] <= vec[i + 1]
    /\ \A j \in DOMAIN vec : j < i + 1 => vec[j] < vec[i + 1]

\* C5 happens: the predicted index has no class row and the request was answered 500
PredictMissingRowAnswered ==
    /\ last.route = "POST /api/v1/predict"
    /\ last.step = "found"
    /\ tables
    /\ \A m \in mangroves : ~FirstMax(last.in.vec, m.dataId)
    /\ last.status = 500

\* C6: the lookup of POST /api/v1/predict answers 200 exactly when the store holds a
\* class row whose dataId is the lowest index of the maximum of the output vector,
\* and then with that index as dataId and that row's name, image and description.
PredictReturnsArgMaxRow ==
    (last.route = "POST /api/v1/predict" /\ last.step = "found") =>
        IF \E m \in mangroves : FirstMax(last.in.vec, m.dataId)
        THEN /\ last.status = 200
             /\ \E m \in mangroves :
                   /\ FirstMax(last.in.vec, m.dataId)
                   /\ last.body = [dataId |-> m.dataId, name |-> m.name,
                                   image |-> m.image, description |-> m.description]
        ELSE last.status = 500

\* C6 happens: the maximum is tied, and the answer is the row of the lowest index
PredictTieAnswered ==
    /\ last.route = "POST /api/v1/predict"
    /\ last.step = "found"
    /\ last.status = 200
    /\ \E i, j \in DOMAIN last.in.vec :
          i < j /\ last.in.vec[i] = last.in.vec[j] /\ last.body.dataId = i - 1

(***************************************************************************)
(* SpecReseed: the process starts on a database file that an earlier run   *)
(* left behind, runs sync and the seed, and is restarted at any time.  The *)
(* file is empty, or holds the tables with any of the seed's rows, their   *)
(* value, name or password as seeded or as an admin changed them.          *)
(***************************************************************************)
RECURSIVE CreateAll(_, _, _)
CreateAll(table, col, rows) ==
    IF rows = <<>> THEN table
    ELSE CreateAll(Create(table, col, Head(rows)), col, Tail(rows))

\* the rows of seq at the indices in I, in order
RECURSIVE Pick(_, _, _)
Pick(seq, I, n) ==
    IF n > Len(seq) THEN <<>>
    ELSE (IF n \in I THEN <<seq[n]>> ELSE <<>>) \o Pick(seq, I, n + 1)

ConfigRows == [i \in 1..Cardinality(SeedConfigs) |-> SeedConfigRow(ConfigSeed[i].key)]

MangroveRows == [i \in 1..Cardinality(SeedMangroves) |-> SeedMangroveRow(MangroveSeed[i].dataId)]

PersistedUsers ==
    {{}} \cup {FindOrCreate({}, "username",
                  [id |-> Absent, username |-> "admin", password |-> HashSync(p, salt)]) :
               p \in Passwords, salt \in Salts}

PersistedConfigs ==
    UNION {{ {IF r.id \in J THEN [r EXCEPT !.value = "v1"] ELSE r :
                 r \in CreateAll({}, "key", Pick(ConfigRows, I, 1))} :
             J \in SUBSET (1..Cardinality(I)) } :
           I \in SUBSET DOMAIN ConfigRows}

PersistedMangroves ==
    UNION {{ {IF r.id \in J THEN [r EXCEPT !.name = "n1"] ELSE r :
                 r \in CreateAll({}, "dataId", Pick(MangroveRows, I, 1))} :
             J \in SUBSET (1..Cardinality(I)) } :
           I \in SUBSET DOMAIN MangroveRows}

ReseedInit ==
    /\ proc = "syncing"
    /\ tables \in BOOLEAN
    /\ users \in (IF tables THEN PersistedUsers ELSE {{}})
    /\ configs \in (IF tables THEN PersistedConfigs ELSE {{}})
    /\ mangroves \in (IF tables THEN PersistedMangroves ELSE {{}})
    /\ session = Absent
    /\ tasks = {}
    /\ last = NoObs

ReseedNext ==
    \/ StartupNext
    \/ Restart

SpecReseed == ReseedInit /\ [][ReseedNext]_vars

rows == <<users, configs, mangroves>>

\* the seed run to its end, one statement after the other, on the given tables
SeedRun(tbl, salt) ==
    LET absentConfigs   == {n \in DOMAIN ConfigRows :
                              FindOne(tbl[2], "key", ConfigRows[n].key) = NoRow}
        absentMangroves == {n \in DOMAIN MangroveRows :
                              FindOne(tbl[3], "dataId", MangroveRows[n].dataId) = NoRow}
    IN  << FindOrCreate(tbl[1], "username",
               [id |-> Absent, username |-> "admin", password |-> HashSync("admin", salt)]),
           CreateAll(tbl[2], "key", Pick(ConfigRows, absentConfigs, 1)),
           CreateAll(tbl[3], "dataId", Pick(MangroveRows, absentMangroves, 1)) >>

\* the row the seed step seen in o is about is in the tables
SeedKeyPresent(o) ==
    \/ o.step = "user" /\ \E u \in users : u.username = o.in.username
    \/ o.step \in {"configFind", "configCreate"} /\ \E c \in configs : c.key = o.in.key
    \/ o.step \in {"mangroveFind", "mangroveCreate"} /\ \E m \in mangroves : m.dataId = o.in.dataId

FullySeeded ==
    /\ \E u \in users : u.username = "admin"
    /\ \A c \in SeedConfigs : \E r \in configs : r.key = c.key
    /\ \A m \in SeedMangroves : \E r \in mangroves : r.dataId = m.dataId

\* C7: a statement of the seed about a username, key or dataId the tables already
\* hold leaves every table as it is, whatever the row's other columns hold; a seed
\* that has run to its end leaves all its usernames, keys and dataIds in the
\* tables; and running the seed on what a run of the seed left changes nothing.
SeedIdempotent ==
    [][/\ (last'.route = "seed" /\ SeedKeyPresent(last')) => UNCHANGED rows
       /\ (proc' = "ready" /\ tasks' = {}) => FullySeeded'
       /\ \A s1, s2 \in Salts : SeedRun(SeedRun(rows', s1), s2) = SeedRun(rows', s1)]_vars

\* C7 happens: the seed has run to its end on tables that held the admin with a
\* changed password, a changed config value and a changed class name
SeedKeptChangedRows ==
    /\ proc = "ready"
    /\ tasks = {}
    /\ last.route = "seed"
    /\ \E u \in users : u.username = "admin" /\ ~CompareSync("admin", u.password)
    /\ \E c \in configs : c.value = "v1"
    /\ \E m \in mangroves : m.name = "n1"

(***************************************************************************)
(* SpecMangroves: the admin, logged in on the seeded server, sends         *)
(* create, edit and delete requests for class rows, MaxReq at a time.      *)
(***************************************************************************)
SpecMangroves == LoggedIn /\ [][MangrovesNext]_vars

\* a row that a step keeps (same id) keeps its dataId
DataIdKept == \A r \in mangroves : \A q \in mangroves' : q.id = r.id => q.dataId = r.dataId

\* C8 as claimed: no two class rows share a dataId, and no step of POST /mangroves,
\* POST /mangroves/:id/edit or POST /mangroves/:id/delete changes the dataId of a row.
DataIdUniqueAndStable ==
    [][UniqueIn(mangroves', "dataId") /\ DataIdKept]_vars

\* C8 as amended: no two class rows share a dataId; the dataId of a row changes only
\* in the update of POST /mangroves/:id/edit, for the row with the id of the request,
\* to the dataId submitted, and only if no other row holds that dataId.
DataIdUniqueAndChangedOnlyByEdit ==
    [][/\ UniqueIn(mangroves', "dataId")
       /\ \A r \in mangroves : \A q \in mangroves' :
             (q.id = r.id /\ q.dataId # r.dataId) =>
                 /\ last'.route = "POST /mangroves/:id/edit"
                 /\ last'.step = "update"
                 /\ r.id = last'.in.id
                 /\ q.dataId = last'.in.dataId
                 /\ \A o \in mangroves : o.dataId # q.dataId]_vars

\* C8 happens: an edit has moved the first seeded row (id 1, seeded with dataId 0) to
\* another dataId, the second seeded row being still as seeded
DataIdEdited ==
    /\ last.route = "POST /mangroves/:id/edit"
    /\ last.step = "update"
    /\ last.in.id = 1
    /\ last.in.dataId # MangroveSeed[1].dataId
    /\ \E m \in mangroves : m.id = 1 /\ m.dataId = last.in.dataId
    /\ \E m \in mangroves : m.id = 2 /\ m.name = MangroveSeed[2].name

(***************************************************************************)
(* SpecConfigs: on the seeded server a client, with the admin's session or *)
(* with none, posts the configs form with every choice of values, MaxReq   *)
(* requests at a time, and reads the configs through the admin page and    *)
(* the API.  Every statement issued is run by the store and every          *)
(* continuation by the event loop: weak fairness of each step of each      *)
(* request.                                                                *)
(***************************************************************************)
ConfigsSpecNext ==
    \/ ConfigsNext
    \/ GetConfigsArrive
    \/ \E t \in tasks : GetConfigsFound(t)
    \/ GetApiConfigsArrive
    \/ \E t \in tasks : GetApiConfigsFound(t)

ConfigKeys == {c.key : c \in SeedConfigs}

ConfigsFairness ==
    \A r \in 1..MaxReq :
        /\ WF_vars(\E t \in tasks : t.rid = r /\ PostConfigsFound(t))
        /\ \A k \in ConfigKeys :
              /\ WF_vars(\E t \in tasks : t.rid = r /\ t.key = k /\ ConfigsFindOne(t))
              /\ WF_vars(\E t \in tasks : t.rid = r /\ t.key = k /\ ConfigsUpdate(t))

SpecConfigs == (Running \/ LoggedIn) /\ [][ConfigsSpecNext]_vars /\ ConfigsFairness

\* a config row's id, key and input
Fixed(r) == <<r.id, r.key, r.input>>

\* C10: the configs table changes only in the update of an authenticated
\* POST /configs: the rows keep their ids, keys and inputs, none is added or removed,
\* the row of the update's key gets the value submitted for it and the other rows
\* keep theirs; and a value submitted for an existing key is stored at some time.
ConfigsOnlyValuesChange ==
    /\ [][configs' # configs =>
            /\ last'.route = "POST /configs"
            /\ last'.step = "update"
            /\ last'.authed
            /\ Truthy(last'.in.value)
            /\ {Fixed(r) : r \in configs'} = {Fixed(r) : r \in configs}
            /\ \A r \in configs' :
                  IF r.key = last'.in.key THEN r.value = last'.in.value ELSE r \in configs]_vars
    /\ \A r \in 1..MaxReq, k \in ConfigKeys, v \in BodyValues \ {""} :
          (\E t \in tasks : /\ t.rid = r
                            /\ t.op = "configs.postFindAll"
                            /\ BodyValue(t.body, k) = v
                            /\ \E c \in configs : c.key = k)
              ~> (\E c \in configs : c.key = k /\ c.value = v)

\* C10 happens: an update has stored the submitted value in one row while another
\* row holds its seeded value
ConfigValueStored ==
    /\ last.route = "POST /configs"
    /\ last.step = "update"
    /\ \E c \in configs : c.key = last.in.key /\ c.value = last.in.value
    /\ \E c \in configs : c.key # last.in.key /\ c.value = SeededObj[c.key]

====
